---- MODULE Spec2Model ----
(***************************************************************************)
(* A model of trieste's model-composition and acquisition-builder layer:   *)
(*   - ModelStack over GaussianProcessRegression constituents              *)
(*     (trieste/models/model_interfaces.py)                                *)
(*   - the update methods of the trainable wrappers                        *)
(*     GaussianProcessRegression, SparseVariational,                       *)
(*     VariationalGaussianProcess and GPFluxModel (same file)              *)
(*   - AcquisitionFunctionBuilder, SingleModelAcquisitionBuilder, their    *)
(*     greedy counterparts and the tag adapters returned by using(tag)     *)
(*     (trieste/acquisition/interface.py)                                  *)
(* Tensors of rank 2 are sequences of rows, a row is a sequence of         *)
(* numbers; shape[-1] is the length of a row.                              *)
(***************************************************************************)
EXTENDS Integers, Sequences, FiniteSets, TLC

\* ------------------------------------------------------------------ bounds
MaxModels == 2      \* constituents of a ModelStack
MaxEvent == 2       \* event size of one constituent
MaxFeat == 1        \* feature width D of the query points of a stack
MaxRows == 1        \* points in a dataset or a batch
MaxPending == 1     \* pending points of a batch
MaxSamples == 1     \* num_samples of one sample call
MaxLayers == 2

\* ------------------------------------------------------------ tensor helpers
RECURSIVE Sum(_)
Sum(s) == IF s = <<>> THEN 0 ELSE Head(s) + Sum(Tail(s))

SetMin(S) == CHOOSE x \in S : \A y \in S : x <= y

\* tensor.shape[-1] of a rank-2 tensor
LastDim(t) == Len(t[1])

\* tf.concat(tensors, axis=-1): row r of the result is the rows r of the
\* tensors one after the other, in list order
RECURSIVE ConcatLastReversed(_)
ConcatLastReversed(ts) ==
    IF Len(ts) = 1 THEN ts[1]
    ELSE [r \in 1..Len(ts[1]) |-> ConcatLastReversed(Tail(ts))[r] \o ts[1][r]]

RECURSIVE ConcatLast(_)
ConcatLast(ts) ==
    IF Len(ts) = 1 THEN ts[1]
    ELSE [r \in 1..Len(ts[1]) |-> ts[1][r] \o ConcatLast(Tail(ts))[r]]

\* tf.concat(tensors, axis=-3) of rank-3 tensors [E_i, B, B]: the B x B
\* blocks of the tensors one after the other, in list order
RECURSIVE ConcatAxisMinus3Reversed(_)
ConcatAxisMinus3Reversed(ts) ==
    IF Len(ts) = 1 THEN ts[1] ELSE ConcatAxisMinus3Reversed(Tail(ts)) \o ts[1]

RECURSIVE ConcatAxisMinus3(_)
ConcatAxisMinus3(ts) ==
    IF Len(ts) = 1 THEN ts[1] ELSE ts[1] \o ConcatAxisMinus3(Tail(ts))

\* tf.concat(tensors, axis=-1) of rank-3 tensors [S, N, E_i]
ConcatLastRank3Reversed(ts) ==
    [s \in 1..Len(ts[1]) |->
        ConcatLast([i \in 1..Len(ts) |-> ts[Len(ts) + 1 - i][s]])]

ConcatLastRank3(ts) ==
    [s \in 1..Len(ts[1]) |-> ConcatLast([i \in 1..Len(ts) |-> ts[i][s]])]

\* the columns [lo+1 .. lo+n] of a rank-2 tensor
Columns(t, lo, n) == [r \in 1..Len(t) |-> SubSeq(t[r], lo + 1, lo + n)]

\* tf.split(tensor, size_splits, axis=-1) is defined only when the sizes sum
\* to the last dimension; otherwise TensorFlow raises
SplitRaisesWhenShort(t, sizes) == Sum(sizes) > LastDim(t)

SplitRaises(t, sizes) == Sum(sizes) # LastDim(t)

SplitFromFirstColumn(t, sizes) ==
    [i \in 1..Len(sizes) |-> Columns(t, 0, sizes[i])]

Split(t, sizes) ==
    [i \in 1..Len(sizes) |-> Columns(t, Sum(SubSeq(sizes, 1, i - 1)), sizes[i])]

\* ------------------------------------------------------------------ datasets
Dataset(qp, obs) == [query_points |-> qp, observations |-> obs]

MkTensor(n, w, seed) == [r \in 1..n |-> [c \in 1..w |-> 100 * seed + 10 * r + c]]

PointBatches ==
    { MkTensor(n, d, 0) : n \in 1..MaxRows, d \in 1..MaxFeat }

Datasets ==
    { Dataset(MkTensor(n, d, 0), MkTensor(n, w, 1)) :
        n \in 1..MaxRows, d \in 1..MaxFeat, w \in 1..(MaxEvent + 1) }

\* --------------------------------------------- GaussianProcessRegression
\* _assert_data_is_compatible raises ValueError
DataIsIncompatible(new_data, existing_data) ==
    \/ LastDim(new_data.query_points) # LastDim(existing_data.query_points)
    \/ LastDim(new_data.observations) # LastDim(existing_data.observations)

\* GaussianProcessRegression.update raises (and then leaves the model as it is)
GPRUpdateRaises(m, dataset) ==
    \/ DataIsIncompatible(dataset, m.data)
    \/ LastDim(dataset.query_points) # LastDim(m.data.query_points)
    \/ LastDim(dataset.observations) # LastDim(m.data.observations)

\* GaussianProcessRegression.update when it does not raise
GPRUpdateAppending(m, dataset) ==
    [m EXCEPT !.data = Dataset(m.data.query_points \o dataset.query_points,
                               m.data.observations \o dataset.observations)]

GPRUpdate(m, dataset) ==
    [m EXCEPT !.data = Dataset(dataset.query_points, dataset.observations)]

\* Optimizer.optimize(model, dataset): the refit parameters depend on the
\* data they were fitted to
OptimizerOptimize(m, dataset) ==
    [m EXCEPT !.params = Len(dataset.query_points)]

\* GPflowPredictor.optimize
GPROptimize(m, dataset) == OptimizerOptimize(m, dataset)

\* GPflowPredictor.predict: model.predict_f gives one mean and one variance
\* per point and output, a function of the model's data and parameters
GPRPredict(m, query_points) ==
    [mean |-> [r \in 1..Len(query_points) |->
                 [c \in 1..LastDim(m.data.observations) |->
                    query_points[r][1] + m.data.observations[1][c] + m.params]],
     var  |-> [r \in 1..Len(query_points) |->
                 [c \in 1..LastDim(m.data.observations) |->
                    query_points[r][1] + Len(m.data.observations) + c]]]

\* GPflowPredictor.predict_joint: model.predict_f(query_points, full_cov=True)
\* gives the mean [B, E] and one B x B covariance per output, [E, B, B]
GPRPredictJoint(m, query_points) ==
    [mean |-> GPRPredict(m, query_points).mean,
     cov  |-> [e \in 1..LastDim(m.data.observations) |->
                 [r \in 1..Len(query_points) |->
                    [c \in 1..Len(query_points) |->
                       IF r = c THEN GPRPredict(m, query_points).var[r][e] ELSE e]]]]

\* the states the random number generator can be in when ModelStack.sample
\* is called; each call of model.predict_f_samples moves it on by one
Draws == {0, 1}

\* GPflowPredictor.sample: model.predict_f_samples(query_points, num_samples)
\* gives [S, N, E]; draw stands for the random numbers of this call
GPRSample(m, query_points, num_samples, draw) ==
    [s \in 1..num_samples |->
       [r \in 1..Len(query_points) |->
          [c \in 1..LastDim(m.data.observations) |->
             GPRPredict(m, query_points).mean[r][c] + 2 * s + draw + 1]]]

\* Python's Optional: None is the empty sequence, a value x is <<x>>
None == <<>>
Some(x) == <<x>>

\* ------------------------------------------------------ trainable wrappers
\* tensor.shape of a rank-2 tensor
Shape(t) == <<Len(t), LastDim(t)>>

\* _assert_data_is_compatible: whether it raises ValueError, and the two
\* shapes its message then names
AssertDataIsCompatibleQueryPointsOnly(new_data, existing_data) ==
    IF LastDim(new_data.query_points) # LastDim(existing_data.query_points)
    THEN [raises |-> TRUE,
          message |-> Some([of |-> "query points",
                            new |-> Shape(new_data.query_points),
                            existing |-> Shape(existing_data.query_points)])]
    ELSE [raises |-> FALSE, message |-> None]

AssertDataIsCompatible(new_data, existing_data) ==
    IF LastDim(new_data.query_points) # LastDim(existing_data.query_points)
    THEN [raises |-> TRUE,
          message |-> Some([of |-> "query points",
                            new |-> Shape(new_data.query_points),
                            existing |-> Shape(existing_data.query_points)])]
    ELSE IF LastDim(new_data.observations) # LastDim(existing_data.observations)
    THEN [raises |-> TRUE,
          message |-> Some([of |-> "observations",
                            new |-> Shape(new_data.observations),
                            existing |-> Shape(existing_data.observations)])]
    ELSE [raises |-> FALSE, message |-> None]

\* what an update call does: it raises ValueError with a message (None for a
\* bare raise ValueError) and leaves the wrapper as it is, or it returns
UpdateRaised(m, message) == [status |-> "ValueError", message |-> message, model |-> m]

UpdateReturned(m) == [status |-> "ok", message |-> None, model |-> m]

\* GaussianProcessRegression.update
WrappedGPRUpdateChecksFirst(m, dataset) ==
    LET a == AssertDataIsCompatible(dataset, Dataset(m.data.query_points,
                                                    m.data.observations))
    IN  IF LastDim(dataset.query_points) # LastDim(m.data.query_points)
        THEN UpdateRaised(m, None)
        ELSE IF LastDim(dataset.observations) # LastDim(m.data.observations)
        THEN UpdateRaised(m, None)
        ELSE IF a.raises THEN UpdateRaised(m, a.message)
        ELSE UpdateReturned(GPRUpdate(m, dataset))

WrappedGPRUpdate(m, dataset) ==
    LET a == AssertDataIsCompatible(dataset, Dataset(m.data.query_points,
                                                    m.data.observations))
    IN  IF a.raises THEN UpdateRaised(m, a.message)
        ELSE IF LastDim(dataset.query_points) # LastDim(m.data.query_points)
        THEN UpdateRaised(m, None)
        ELSE IF LastDim(dataset.observations) # LastDim(m.data.observations)
        THEN UpdateRaised(m, None)
        ELSE UpdateReturned(GPRUpdate(m, dataset))

\* SparseVariational.update
SparseVariationalUpdate(m, dataset) ==
    LET a == AssertDataIsCompatible(dataset, m.data)
    IN  IF a.raises THEN UpdateRaised(m, a.message)
        ELSE UpdateReturned([m EXCEPT !.data = dataset,
                                      !.num_data = Shape(dataset.query_points)[1]])

\* a variational parameter: its shape, and whether an update has set it
Parameter(shape) == [shape |-> shape, set_by |-> "update"]

\* VariationalGaussianProcess.update: predict_f gives f_mu [N, L] and f_cov
\* [L, N, N] for the N new points, L the model's number of latent GPs
VariationalGaussianProcessUpdate(m, dataset) ==
    LET a == AssertDataIsCompatible(dataset, m.data)
        N == Len(dataset.query_points)
        L == m.q_mu.shape[2]
    IN  IF a.raises THEN UpdateRaised(m, a.message)
        ELSE UpdateReturned([m EXCEPT !.data = dataset,
                                      !.num_data = Len(dataset.query_points),
                                      !.q_mu = Parameter(<<N, L>>),
                                      !.q_sqrt = Parameter(<<L, N, N>>)])

Min(a, b) == IF a <= b THEN a ELSE b

\* GPFluxModel.update: draw is the random bias and weights of a resampled
\* random-feature decomposition, when the layer's kernel has one
GPFluxModelUpdate(m, dataset, draw) ==
    LET a == AssertDataIsCompatible(dataset, m.data)
        num_data == Shape(dataset.query_points)[1]
        num_inducing == Min(num_data, m.max_num_inducing_points)
        L == m.q_mu.shape[2]
    IN  IF a.raises THEN UpdateRaised(m, a.message)
        ELSE UpdateReturned([m EXCEPT !.data = dataset,
                                      !.feature_functions =
                                          IF @ = None THEN None ELSE Some(draw),
                                      !.q_mu = Parameter(<<num_inducing, L>>),
                                      !.q_sqrt = Parameter(<<L, num_inducing,
                                                            num_inducing>>),
                                      !.Z = Parameter(<<num_inducing,
                                                       LastDim(dataset.query_points)>>),
                                      !.num_data = num_data])

\* ------------------------------------------------------------------- state
VARIABLES
    stack_models,   \* ModelStack._models: the constituents, constructor order
    event_sizes,    \* ModelStack._event_sizes
    calls,          \* the calls the last stack operation made on constituents
    outcome,        \* the last stack operation, its argument and its result
    models_reg,     \* the optimization loop's models: tag -> model
    datasets_reg,   \* the loop's datasets: None or tag -> dataset
    function,       \* the acquisition function the loop holds (None at first)
    builder_log,    \* the calls the last builder operation made on wrapped builders
    bres,           \* the last builder operation, its arguments and its result
    parts,          \* two tag adapters used side by side: for each the wrapped
                    \* builder, the tag and the function that builder made last
    instances,      \* the internal state of each builder object that has one
    wrapper,        \* one trainable wrapper and the model it wraps (None: none)
    wres            \* the last operation on the wrapper, its argument and result

stackVars == <<stack_models, event_sizes, calls, outcome>>
builderVars == <<models_reg, datasets_reg, function, builder_log, bres, parts,
                 instances>>
wrapperVars == <<wrapper, wres>>
vars == <<stack_models, event_sizes, calls, outcome,
          models_reg, datasets_reg, function, builder_log, bres, parts,
          instances, wrapper, wres>>

\* ModelStack.__init__: at least one (model, event size) pair, the models
\* trained on the same query points; the declared size is not compared with
\* the model, and here at most one model has another output width
ModelStackInit ==
    \E n \in 1..MaxModels, feat \in 1..MaxFeat, other \in 0..MaxModels :
        /\ other <= n
        /\ event_sizes \in [1..n -> 1..MaxEvent]
        /\ stack_models =
              [i \in 1..n |->
                 [data |-> Dataset(MkTensor(1, feat, 0),
                                   MkTensor(1, IF i = other
                                               THEN (event_sizes[i] % MaxEvent) + 1
                                               ELSE event_sizes[i], 0)),
                  params |-> 0]]
        /\ calls = <<>>
        /\ outcome = [op |-> "init", status |-> "ok"]

\* ------------------------------------------------- acquisition builders
Tags == {"OBJECTIVE", "FAILURE"}

\* the models and the datasets the loop can register under a tag
ModelNames == {"gpr", "vgp"}

DatasetNames == {"initial", "observed"}

ModelMaps == UNION { [S -> ModelNames] : S \in SUBSET Tags }

DatasetMaps == UNION { [S -> DatasetNames] : S \in SUBSET Tags }

\* pending_points: None, or a tensor of M >= 1 pending points, named by M
PendingOptions == {None} \cup { Some(k) : k \in 1..MaxPending }

\* the single-model builders that using(tag) wraps: "pov" keeps the default
\* update_acquisition_function and so does "greedy"; "inplace" overrides it
SingleBuilders == {"pov", "inplace"}

GreedyBuilders == {"greedy"}

Overrides(b) == b = "inplace"

\* a function object the loop does not hold yet
NewId(f) == IF f = None THEN 1 ELSE 3 - f[1].id

\* builders that keep internal state between calls, here the last call they
\* served: a single-model builder and a greedy one
StatefulBuilders == {"memo", "greedy_memo"}

\* the objects with internal state: the builders and what a copy of one made
\* for an adapter of a given tag would be
CopyOf(b, tag) == IF tag = "OBJECTIVE" THEN "copy_objective" ELSE "copy_failure"

Instances == StatefulBuilders \cup {"copy_objective", "copy_failure"}

\* SingleModelAcquisitionBuilder.using and its greedy counterpart: the adapter
\* holds the builder it forwards to (single_builder), the tag, and here the
\* builder using was called on and the function the adapter returned last
UsingCopies(b, tag) ==
    [builder |-> IF b \in StatefulBuilders THEN CopyOf(b, tag) ELSE b,
     of |-> b, tag |-> tag, function |-> None]

Using(b, tag) ==
    [builder |-> b, of |-> b, tag |-> tag, function |-> None]

BuilderStateInit ==
    /\ models_reg = [t \in Tags |-> "gpr"]
    /\ datasets_reg = None
    /\ function = None
    /\ builder_log = <<>>
    /\ bres = [op |-> "init", status |-> "ok"]
    /\ instances = [i \in Instances |-> None]

BuilderInit ==
    /\ BuilderStateInit
    /\ parts = <<Using("inplace", "OBJECTIVE"), Using("pov", "FAILURE")>>

\* the datasets a wrapper is built on and updated with: one more feature
\* width than a stack sees, so that either trailing dimension can disagree
WrapperDatasets ==
    { Dataset(MkTensor(n, d, 0), MkTensor(n, w, seed)) :
        n \in 1..MaxRows, d \in 1..(MaxFeat + 1), w \in 1..MaxEvent,
        seed \in {1, 2} }

\* the wrappers of model_interfaces.py
WrapperKinds == {"gpr", "svgp", "vgp", "gpflux"}

\* max_num_inducing_points when the caller gives none
DefaultMaxNumInducingPoints == 100

\* a wrapper over a model whose num_data (and whose layer's) is n and whose
\* variational parameters are those of n points and as many latent GPs as
\* there are observation columns
\* the ranks of q_sqrt a variational model is constructed with: [N, L] when
\* diagonal, [L, N, N] when full, and one with a further leading axis
QSqrtRanks == {2, 3, 4}

QSqrtShape(rank, L, n) ==
    IF rank = 2 THEN <<n, L>>
    ELSE IF rank = 3 THEN <<L, n, n>> ELSE <<1, L, n, n>>

\* a model of the given kind with a q_sqrt of the given rank and the given
\* number of layers, and what its wrapper keeps next to it
WrapperOf(kind, data, n, feature_functions, max_num_inducing_points, inducing_point_selector, rank, layers) ==
    [kind |-> kind, data |-> data, params |-> 0,
     num_data |-> n, layer_num_data |-> n,
     q_mu |-> [shape |-> <<n, LastDim(data.observations)>>, set_by |-> "init"],
     q_sqrt |-> [shape |-> QSqrtShape(rank, LastDim(data.observations), n),
                 set_by |-> "init"],
     Z |-> [shape |-> <<n, LastDim(data.query_points)>>, set_by |-> "init"],
     feature_functions |-> feature_functions,
     max_num_inducing_points |-> max_num_inducing_points,
     inducing_point_selector |-> inducing_point_selector, f_layers |-> layers]

Wrapper(kind, data, n, feature_functions, max_num_inducing_points) ==
    WrapperOf(kind, data, n, feature_functions, max_num_inducing_points,
              "KMeans", 3, 1)

\* what a constructor call leaves: the attributes assigned on self, in order,
\* and the object the caller gets (None when the constructor raised)
Constructed(assigned, self) ==
    [status |-> "ok", message |-> None, assigned |-> assigned, self |-> Some(self)]

ConstructorRaised(status, message, assigned) ==
    [status |-> status, message |-> message, assigned |-> assigned, self |-> None]

\* VariationalGaussianProcess.__init__: tf.debugging.assert_rank raises
\* ValueError or InvalidArgumentError, here "assert_rank"
VariationalGaussianProcessInitAssertsLast(model) ==
    IF Len(model.q_sqrt.shape) # 3
    THEN ConstructorRaised("assert_rank", None, <<"_optimizer", "_model">>)
    ELSE Constructed(<<"_optimizer", "_model">>, model)

VariationalGaussianProcessInit(model) ==
    IF Len(model.q_sqrt.shape) # 3
    THEN ConstructorRaised("assert_rank", None, <<>>)
    ELSE Constructed(<<"_optimizer", "_model">>, model)

\* GPFluxModel.__init__
GPFluxModelInitAnyDepth(model, inducing_point_selector, max_num_inducing_points) ==
    Constructed(<<"_model", "_data", "num_epochs", "_batch_size",
                  "_inducing_point_selector", "_max_num_inducing_points",
                  "_verbose">>,
                WrapperOf("gpflux", model.data, model.num_data,
                          model.feature_functions,
                          IF max_num_inducing_points = None
                          THEN DefaultMaxNumInducingPoints
                          ELSE max_num_inducing_points[1],
                          IF inducing_point_selector = None THEN "KMeans"
                          ELSE inducing_point_selector[1],
                          3, model.f_layers))

GPFluxModelInit(model, inducing_point_selector, max_num_inducing_points) ==
    IF model.f_layers > 1
    THEN ConstructorRaised("NotImplementedError",
                           Some("GPFluxModels are restricted to single-layer models."),
                           <<"_model">>)
    ELSE Constructed(<<"_model", "_data", "num_epochs", "_batch_size",
                       "_inducing_point_selector", "_max_num_inducing_points",
                       "_verbose">>,
                     WrapperOf("gpflux", model.data, model.num_data,
                               model.feature_functions,
                               IF max_num_inducing_points = None
                               THEN DefaultMaxNumInducingPoints
                               ELSE max_num_inducing_points[1],
                               IF inducing_point_selector = None THEN "KMeans"
                               ELSE inducing_point_selector[1],
                               3, model.f_layers))

\* the constructors: no wrapper compares the model's num_data with its data;
\* only a GPFluxModel has a kernel decomposition and an inducing point limit
WrapperInit ==
    /\ \E kind \in WrapperKinds, data \in WrapperDatasets, n \in 1..(MaxRows + 1),
          feature_functions \in {None, Some(0)},
          max_num_inducing_points \in {1, DefaultMaxNumInducingPoints} :
            /\ kind = "gpr" => n = Len(data.query_points)
            /\ kind # "gpflux" =>
                  /\ feature_functions = None
                  /\ max_num_inducing_points = DefaultMaxNumInducingPoints
            /\ wrapper = Some(Wrapper(kind, data, n, feature_functions,
                                      max_num_inducing_points))
    /\ wres = [op |-> "init", status |-> "ok"]

\* no wrapper is under test
NoWrapper ==
    /\ wrapper = None
    /\ wres = [op |-> "init", status |-> "ok"]

Init == ModelStackInit /\ BuilderInit /\ NoWrapper

\* ModelStack.predict
ModelStackPredictDeclared(query_points) ==
    LET preds == [i \in 1..Len(stack_models) |-> GPRPredict(stack_models[i], query_points)]
        declared(t, i) == Columns(t, 0, Min(event_sizes[i], LastDim(t)))
    IN  [mean |-> ConcatLast([i \in 1..Len(preds) |-> declared(preds[i].mean, i)]),
         var  |-> ConcatLast([i \in 1..Len(preds) |-> declared(preds[i].var, i)])]

ModelStackPredict(query_points) ==
    LET preds == [i \in 1..Len(stack_models) |-> GPRPredict(stack_models[i], query_points)]
    IN  [mean |-> ConcatLast([i \in 1..Len(preds) |-> preds[i].mean]),
         var  |-> ConcatLast([i \in 1..Len(preds) |-> preds[i].var])]

\* the points have the feature width the constituents were trained on: what
\* GPflow does with other points is not decided by this code
Predict ==
    \E query_points \in PointBatches :
        /\ \A i \in 1..Len(stack_models) :
              LastDim(query_points) = LastDim(stack_models[i].data.query_points)
        /\ outcome' = [op |-> "predict", status |-> "ok", points |-> query_points,
                       value |-> ModelStackPredict(query_points)]
        /\ calls' = [i \in 1..Len(stack_models) |->
                        [idx |-> i, method |-> "predict", points |-> query_points]]
        /\ UNCHANGED <<stack_models, event_sizes>>
        /\ UNCHANGED <<builderVars, wrapperVars>>

\* ModelStack.predict_joint
ModelStackPredictJointFirstCovariance(query_points) ==
    LET preds == [i \in 1..Len(stack_models) |->
                     GPRPredictJoint(stack_models[i], query_points)]
    IN  [mean |-> ConcatLast([i \in 1..Len(preds) |-> preds[i].mean]),
         cov  |-> preds[1].cov]

ModelStackPredictJoint(query_points) ==
    LET preds == [i \in 1..Len(stack_models) |->
                     GPRPredictJoint(stack_models[i], query_points)]
    IN  [mean |-> ConcatLast([i \in 1..Len(preds) |-> preds[i].mean]),
         cov  |-> ConcatAxisMinus3([i \in 1..Len(preds) |-> preds[i].cov])]

PredictJointRefits ==
    \E query_points \in PointBatches :
        /\ \A i \in 1..Len(stack_models) :
              LastDim(query_points) = LastDim(stack_models[i].data.query_points)
        /\ outcome' = [op |-> "predict_joint", status |-> "ok",
                       points |-> query_points,
                       value |-> ModelStackPredictJoint(query_points)]
        /\ calls' = [i \in 1..Len(stack_models) |->
                        [idx |-> i, method |-> "predict_joint",
                         points |-> query_points]]
        /\ stack_models' = [i \in 1..Len(stack_models) |->
                               [stack_models[i] EXCEPT !.params = (@ + 1) % 2]]
        /\ UNCHANGED event_sizes
        /\ UNCHANGED <<builderVars, wrapperVars>>

PredictJoint ==
    \E query_points \in PointBatches :
        /\ \A i \in 1..Len(stack_models) :
              LastDim(query_points) = LastDim(stack_models[i].data.query_points)
        /\ outcome' = [op |-> "predict_joint", status |-> "ok",
                       points |-> query_points,
                       value |-> ModelStackPredictJoint(query_points)]
        /\ calls' = [i \in 1..Len(stack_models) |->
                        [idx |-> i, method |-> "predict_joint",
                         points |-> query_points]]
        /\ UNCHANGED <<stack_models, event_sizes>>
        /\ UNCHANGED <<builderVars, wrapperVars>>

\* ModelStack.sample: samples is what the constituents returned, in order
ModelStackSampleOfMean(query_points, num_samples, samples) ==
    [s \in 1..num_samples |-> ModelStackPredict(query_points).mean]

ModelStackSample(query_points, num_samples, samples) ==
    ConcatLastRank3(samples)

Sample ==
    \E query_points \in PointBatches, num_samples \in 1..MaxSamples :
        \E draw \in Draws :
            LET samples == [i \in 1..Len(stack_models) |->
                               GPRSample(stack_models[i], query_points,
                                         num_samples, draw + i - 1)]
            IN  /\ \A i \in 1..Len(stack_models) :
                      LastDim(query_points) = LastDim(stack_models[i].data.query_points)
                /\ outcome' = [op |-> "sample", status |-> "ok",
                               points |-> query_points,
                               num_samples |-> num_samples,
                               value |-> ModelStackSample(query_points, num_samples,
                                                          samples)]
                /\ calls' = [i \in 1..Len(stack_models) |->
                                [idx |-> i, method |-> "sample",
                                 points |-> query_points,
                                 num_samples |-> num_samples,
                                 value |-> samples[i]]]
                /\ UNCHANGED <<stack_models, event_sizes>>
                /\ UNCHANGED <<builderVars, wrapperVars>>

\* ModelStack.update
UpdateCallsEveryConstituent ==
    \E dataset \in Datasets :
        IF SplitRaises(dataset.observations, event_sizes)
        THEN /\ outcome' = [op |-> "update", status |-> "error", error |-> "split",
                            dataset |-> dataset]
             /\ calls' = <<>>
             /\ UNCHANGED <<stack_models, event_sizes>>
             /\ UNCHANGED <<builderVars, wrapperVars>>
        ELSE LET n == Len(stack_models)
                 observations == Split(dataset.observations, event_sizes)
                 part(i) == Dataset(dataset.query_points, observations[i])
                 raising == {i \in 1..n : GPRUpdateRaises(stack_models[i], part(i))}
                 stop == IF raising = {} THEN n + 1 ELSE SetMin(raising)
             IN  /\ stack_models' =
                        [i \in 1..n |-> IF i \notin raising
                                        THEN GPRUpdate(stack_models[i], part(i))
                                        ELSE stack_models[i]]
                 /\ calls' = [i \in 1..n |->
                                 [idx |-> i, method |-> "update", dataset |-> part(i)]]
                 /\ outcome' = IF stop > n
                               THEN [op |-> "update", status |-> "ok", dataset |-> dataset]
                               ELSE [op |-> "update", status |-> "error",
                                     error |-> "ValueError", at |-> stop,
                                     dataset |-> dataset]
                 /\ UNCHANGED event_sizes
                 /\ UNCHANGED <<builderVars, wrapperVars>>

Update ==
    \E dataset \in Datasets :
        IF SplitRaises(dataset.observations, event_sizes)
        THEN /\ outcome' = [op |-> "update", status |-> "error", error |-> "split",
                            dataset |-> dataset]
             /\ calls' = <<>>
             /\ UNCHANGED <<stack_models, event_sizes>>
             /\ UNCHANGED <<builderVars, wrapperVars>>
        ELSE LET n == Len(stack_models)
                 observations == Split(dataset.observations, event_sizes)
                 part(i) == Dataset(dataset.query_points, observations[i])
                 raising == {i \in 1..n : GPRUpdateRaises(stack_models[i], part(i))}
                 stop == IF raising = {} THEN n + 1 ELSE SetMin(raising)
             IN  /\ stack_models' =
                        [i \in 1..n |-> IF i < stop
                                        THEN GPRUpdate(stack_models[i], part(i))
                                        ELSE stack_models[i]]
                 /\ calls' = [i \in 1..(IF stop > n THEN n ELSE stop) |->
                                 [idx |-> i, method |-> "update", dataset |-> part(i)]]
                 /\ outcome' = IF stop > n
                               THEN [op |-> "update", status |-> "ok", dataset |-> dataset]
                               ELSE [op |-> "update", status |-> "error",
                                     error |-> "ValueError", at |-> stop,
                                     dataset |-> dataset]
                 /\ UNCHANGED event_sizes
                 /\ UNCHANGED <<builderVars, wrapperVars>>

\* ModelStack.optimize
OptimizeUnsplit ==
    \E dataset \in Datasets :
        IF SplitRaises(dataset.observations, event_sizes)
        THEN /\ outcome' = [op |-> "optimize", status |-> "error", error |-> "split",
                            dataset |-> dataset]
             /\ calls' = <<>>
             /\ UNCHANGED <<stack_models, event_sizes>>
             /\ UNCHANGED <<builderVars, wrapperVars>>
        ELSE LET n == Len(stack_models)
             IN  /\ stack_models' =
                        [i \in 1..n |-> GPROptimize(stack_models[i], dataset)]
                 /\ calls' = [i \in 1..n |->
                                 [idx |-> i, method |-> "optimize", dataset |-> dataset]]
                 /\ outcome' = [op |-> "optimize", status |-> "ok", dataset |-> dataset]
                 /\ UNCHANGED event_sizes
                 /\ UNCHANGED <<builderVars, wrapperVars>>

Optimize ==
    \E dataset \in Datasets :
        IF SplitRaises(dataset.observations, event_sizes)
        THEN /\ outcome' = [op |-> "optimize", status |-> "error", error |-> "split",
                            dataset |-> dataset]
             /\ calls' = <<>>
             /\ UNCHANGED <<stack_models, event_sizes>>
             /\ UNCHANGED <<builderVars, wrapperVars>>
        ELSE LET n == Len(stack_models)
                 observations == Split(dataset.observations, event_sizes)
                 part(i) == Dataset(dataset.query_points, observations[i])
             IN  /\ stack_models' =
                        [i \in 1..n |-> GPROptimize(stack_models[i], part(i))]
                 /\ calls' = [i \in 1..n |->
                                 [idx |-> i, method |-> "optimize", dataset |-> part(i)]]
                 /\ outcome' = [op |-> "optimize", status |-> "ok", dataset |-> dataset]
                 /\ UNCHANGED event_sizes
                 /\ UNCHANGED <<builderVars, wrapperVars>>

StackNext == Predict \/ PredictJoint \/ Sample \/ Update \/ Optimize

StackSpec == Init /\ [][StackNext]_vars

\* --------------------------------------------------------- wrapper calls
\* the wrapper after the call, and what the caller saw
WrapperFinish(op, dataset, r) ==
    /\ wrapper' = Some(r.model)
    /\ wres' = [op |-> op, status |-> r.status, message |-> r.message,
                dataset |-> dataset]
    /\ UNCHANGED <<stackVars, builderVars>>

UpdateGaussianProcessRegression ==
    \E dataset \in WrapperDatasets :
        /\ wrapper # None
        /\ wrapper[1].kind = "gpr"
        /\ WrapperFinish("update", dataset, WrappedGPRUpdate(wrapper[1], dataset))

UpdateSparseVariational ==
    \E dataset \in WrapperDatasets :
        /\ wrapper # None
        /\ wrapper[1].kind = "svgp"
        /\ WrapperFinish("update", dataset, SparseVariationalUpdate(wrapper[1], dataset))

UpdateVariationalGaussianProcess ==
    \E dataset \in WrapperDatasets :
        /\ wrapper # None
        /\ wrapper[1].kind = "vgp"
        /\ WrapperFinish("update", dataset,
                         VariationalGaussianProcessUpdate(wrapper[1], dataset))

UpdateGPFluxModel ==
    \E dataset \in WrapperDatasets, draw \in Draws :
        /\ wrapper # None
        /\ wrapper[1].kind = "gpflux"
        /\ WrapperFinish("update", dataset, GPFluxModelUpdate(wrapper[1], dataset, draw))

\* a constructor call: the caller's wrapper is the new object when the
\* constructor returns and the one it had when the constructor raises
ConstructVariationalGaussianProcess ==
    \E data \in WrapperDatasets, rank \in QSqrtRanks :
        LET model == WrapperOf("vgp", data, Len(data.query_points), None,
                               DefaultMaxNumInducingPoints, "KMeans", rank, 1)
            r == VariationalGaussianProcessInit(model)
        IN  /\ wrapper' = IF r.self = None THEN wrapper ELSE r.self
            /\ wres' = [op |-> "construct", kind |-> "vgp", status |-> r.status,
                        message |-> r.message, assigned |-> r.assigned,
                        self |-> r.self, args |-> [q_sqrt |-> model.q_sqrt]]
            /\ UNCHANGED <<stackVars, builderVars>>

ConstructGPFluxModel ==
    \E data \in WrapperDatasets, layers \in 1..MaxLayers,
       inducing_point_selector \in {None, Some("custom")},
       max_num_inducing_points \in {None, Some(1)} :
        LET model == WrapperOf("gpflux", data, Len(data.query_points), None,
                               DefaultMaxNumInducingPoints, "KMeans", 3, layers)
            r == GPFluxModelInit(model, inducing_point_selector,
                                 max_num_inducing_points)
        IN  /\ wrapper' = IF r.self = None THEN wrapper ELSE r.self
            /\ wres' = [op |-> "construct", kind |-> "gpflux", status |-> r.status,
                        message |-> r.message, assigned |-> r.assigned,
                        self |-> r.self,
                        args |-> [f_layers |-> model.f_layers,
                                  inducing_point_selector |-> inducing_point_selector,
                                  max_num_inducing_points |-> max_num_inducing_points]]
            /\ UNCHANGED <<stackVars, builderVars>>

WrapperNext ==
    \/ UpdateGaussianProcessRegression
    \/ UpdateSparseVariational
    \/ UpdateVariationalGaussianProcess
    \/ UpdateGPFluxModel

\* one wrapper, next to a stack and builders that no wrapper call touches
WrapperSpecInit ==
    /\ ModelStackInit
    /\ event_sizes = <<1>>
    /\ stack_models[1].data = Dataset(MkTensor(1, 1, 0), MkTensor(1, 1, 0))
    /\ BuilderInit
    /\ WrapperInit

WrapperSpec == WrapperSpecInit /\ [][WrapperNext]_vars

\* the constructors that can refuse their model, called again and again by
\* a caller that starts with no wrapper
ConstructNext ==
    \/ ConstructVariationalGaussianProcess
    \/ ConstructGPFluxModel

ConstructSpecInit ==
    /\ ModelStackInit
    /\ event_sizes = <<1>>
    /\ stack_models[1].data = Dataset(MkTensor(1, 1, 0), MkTensor(1, 1, 0))
    /\ BuilderInit
    /\ NoWrapper

ConstructSpec == ConstructSpecInit /\ [][ConstructNext]_vars

\* --------------------------------------------------------- builder calls
\* the result of a call: it returned ret, or it raised KeyError(key); log is
\* the calls it made on wrapped builders, arg the function object it was
\* given as that object is after the call
Return(log, ret, arg) ==
    [status |-> "ok", key |-> None, log |-> log, ret |-> Some(ret), arg |-> arg]

RaiseKeyError(key, arg) ==
    [status |-> "KeyError", key |-> Some(key), log |-> <<>>, ret |-> None, arg |-> arg]

Call(b, method, fn, model, dataset, pending, step) ==
    [builder |-> b, method |-> method, function |-> fn, model |-> model,
     dataset |-> dataset, pending |-> pending, new_optimization_step |-> step]

\* SingleModelAcquisitionBuilder.prepare_acquisition_function, abstract: a
\* subclass (ProbabilityOfValidity) returns a new closure over its arguments
SinglePrepare(b, fresh, model, dataset) ==
    Return(<<Call(b, "prepare", None, model, dataset, None, None)>>,
           [id |-> fresh, by |-> b, model |-> model, dataset |-> dataset,
            pending |-> None],
           None)

\* an override of update_acquisition_function that updates the variables of
\* the function it is given and returns that same object
UpdateInPlace(b, fn, model, dataset) ==
    LET g == [fn EXCEPT !.model = model, !.dataset = dataset]
    IN  Return(<<Call(b, "update", Some(fn.id), model, dataset, None, None)>>,
               g, Some(g))

\* SingleModelAcquisitionBuilder.update_acquisition_function
SingleUpdateStale(b, fn, fresh, model, dataset) ==
    Return(<<Call(b, "update", Some(fn.id), model, dataset, None, None)>>,
           fn, Some(fn))

SingleUpdate(b, fn, fresh, model, dataset) ==
    IF Overrides(b) THEN UpdateInPlace(b, fn, model, dataset)
    ELSE LET p == SinglePrepare(b, fresh, model, dataset)
         IN  Return(<<Call(b, "update", Some(fn.id), model, dataset, None, None)>>
                       \o p.log,
                    p.ret[1], Some(fn))

\* SingleModelGreedyAcquisitionBuilder.prepare_acquisition_function, abstract
GreedyPrepare(b, fresh, model, dataset, pending) ==
    Return(<<Call(b, "prepare", None, model, dataset, pending, None)>>,
           [id |-> fresh, by |-> b, model |-> model, dataset |-> dataset,
            pending |-> pending],
           None)

\* SingleModelGreedyAcquisitionBuilder.update_acquisition_function
GreedyUpdate(b, fn, fresh, model, dataset, pending, new_optimization_step) ==
    LET p == GreedyPrepare(b, fresh, model, dataset, pending)
    IN  Return(<<Call(b, "update", Some(fn.id), model, dataset, pending,
                      Some(new_optimization_step))>> \o p.log,
               p.ret[1], Some(fn))

\* models[tag] raises KeyError
ModelLookupRaises(models, tag) == tag \notin DOMAIN models

\* None if datasets is None else datasets[tag]: the value passed as dataset,
\* unless datasets[tag] raises KeyError
DatasetArgumentGet(datasets, tag) ==
    IF datasets = None THEN [raises |-> FALSE, value |-> None]
    ELSE IF tag \in DOMAIN datasets[1]
         THEN [raises |-> FALSE, value |-> Some(datasets[1][tag])]
         ELSE [raises |-> FALSE, value |-> None]

DatasetArgument(datasets, tag) ==
    IF datasets = None THEN [raises |-> FALSE, value |-> None]
    ELSE IF tag \in DOMAIN datasets[1]
         THEN [raises |-> FALSE, value |-> Some(datasets[1][tag])]
         ELSE [raises |-> TRUE, value |-> None]

\* using(tag)._Anon.prepare_acquisition_function
AnonPrepareAnyTag(b, tag, models, datasets, fresh) ==
    LET t == IF "OBJECTIVE" \in DOMAIN models THEN "OBJECTIVE" ELSE tag
    IN  IF ModelLookupRaises(models, t) THEN RaiseKeyError(t, None)
        ELSE IF DatasetArgument(datasets, t).raises THEN RaiseKeyError(t, None)
        ELSE SinglePrepare(b, fresh, models[t], DatasetArgument(datasets, t).value)

AnonPrepare(b, tag, models, datasets, fresh) ==
    IF ModelLookupRaises(models, tag) THEN RaiseKeyError(tag, None)
    ELSE IF DatasetArgument(datasets, tag).raises THEN RaiseKeyError(tag, None)
    ELSE SinglePrepare(b, fresh, models[tag], DatasetArgument(datasets, tag).value)

\* using(tag)._Anon.update_acquisition_function
AnonUpdateSilent(b, tag, fn, models, datasets, fresh) ==
    IF ModelLookupRaises(models, tag) THEN Return(<<>>, fn, Some(fn))
    ELSE IF DatasetArgument(datasets, tag).raises THEN RaiseKeyError(tag, Some(fn))
    ELSE SingleUpdate(b, fn, fresh, models[tag], DatasetArgument(datasets, tag).value)

AnonUpdateViaPrepare(b, tag, fn, models, datasets, fresh) ==
    IF ModelLookupRaises(models, tag) THEN RaiseKeyError(tag, Some(fn))
    ELSE IF DatasetArgument(datasets, tag).raises THEN RaiseKeyError(tag, Some(fn))
    ELSE LET p == SinglePrepare(b, fresh, models[tag], DatasetArgument(datasets, tag).value)
         IN  Return(p.log, p.ret[1], Some(fn))

AnonUpdate(b, tag, fn, models, datasets, fresh) ==
    IF ModelLookupRaises(models, tag) THEN RaiseKeyError(tag, Some(fn))
    ELSE IF DatasetArgument(datasets, tag).raises THEN RaiseKeyError(tag, Some(fn))
    ELSE SingleUpdate(b, fn, fresh, models[tag], DatasetArgument(datasets, tag).value)

\* SingleModelGreedyAcquisitionBuilder.using(tag)._Anon
GreedyAnonPrepare(b, tag, models, datasets, pending, fresh) ==
    IF ModelLookupRaises(models, tag) THEN RaiseKeyError(tag, None)
    ELSE IF DatasetArgument(datasets, tag).raises THEN RaiseKeyError(tag, None)
    ELSE GreedyPrepare(b, fresh, models[tag], DatasetArgument(datasets, tag).value,
                       pending)

GreedyAnonUpdateDefaultStep(b, tag, fn, models, datasets, pending, new_optimization_step, fresh) ==
    IF ModelLookupRaises(models, tag) THEN RaiseKeyError(tag, Some(fn))
    ELSE IF DatasetArgument(datasets, tag).raises THEN RaiseKeyError(tag, Some(fn))
    ELSE GreedyUpdate(b, fn, fresh, models[tag], DatasetArgument(datasets, tag).value,
                      pending, TRUE)

GreedyAnonUpdate(b, tag, fn, models, datasets, pending, new_optimization_step, fresh) ==
    IF ModelLookupRaises(models, tag) THEN RaiseKeyError(tag, Some(fn))
    ELSE IF DatasetArgument(datasets, tag).raises THEN RaiseKeyError(tag, Some(fn))
    ELSE GreedyUpdate(b, fn, fresh, models[tag], DatasetArgument(datasets, tag).value,
                      pending, new_optimization_step)

\* AcquisitionFunctionBuilder.prepare_acquisition_function, abstract: a new
\* function of the models and the datasets it is given
BuilderPrepare(fresh, models, datasets) ==
    Return(<<[builder |-> "multi", method |-> "prepare", models |-> models,
              datasets |-> datasets]>>,
           [id |-> fresh, by |-> "multi", models |-> models, datasets |-> datasets],
           None)

\* AcquisitionFunctionBuilder.update_acquisition_function
BuilderUpdateNoDatasets(fn, fresh, models, datasets) ==
    LET p == BuilderPrepare(fresh, models, None)
    IN  Return(p.log, p.ret[1], Some(fn))

BuilderUpdate(fn, fresh, models, datasets) ==
    LET p == BuilderPrepare(fresh, models, datasets)
    IN  Return(p.log, p.ret[1], Some(fn))

\* the loop keeps what the call returned; after an error it keeps what it had
FinishForgettingOnError(op, b, tag, r) ==
    /\ bres' = [op |-> op, builder |-> b, tag |-> tag, status |-> r.status,
                key |-> r.key, arg |-> r.arg]
    /\ builder_log' = r.log
    /\ function' = IF r.status = "ok" THEN r.ret ELSE function
    /\ datasets_reg' = IF r.status = "ok" THEN datasets_reg ELSE None
    /\ UNCHANGED <<models_reg, parts, instances>>
    /\ UNCHANGED <<stackVars, wrapperVars>>

Finish(op, b, tag, r) ==
    /\ bres' = [op |-> op, builder |-> b, tag |-> tag, status |-> r.status,
                key |-> r.key, arg |-> r.arg]
    /\ builder_log' = r.log
    /\ function' = IF r.status = "ok" THEN r.ret ELSE function
    /\ UNCHANGED <<models_reg, datasets_reg, parts, instances>>
    /\ UNCHANGED <<stackVars, wrapperVars>>

\* the same for a greedy builder, whose caller also gives the pending points
\* and, to update, new_optimization_step
GreedyFinish(op, b, tag, pending, step, r) ==
    /\ bres' = [op |-> op, builder |-> b, tag |-> tag, status |-> r.status,
                key |-> r.key, arg |-> r.arg, pending |-> pending,
                new_optimization_step |-> step]
    /\ builder_log' = r.log
    /\ function' = IF r.status = "ok" THEN r.ret ELSE function
    /\ UNCHANGED <<models_reg, datasets_reg, parts, instances>>
    /\ UNCHANGED <<stackVars, wrapperVars>>

\* the loop replaces its models between steps
SetModels ==
    \E models \in ModelMaps :
        /\ models_reg' = models
        /\ bres' = [op |-> "set_models", status |-> "ok"]
        /\ builder_log' = <<>>
        /\ UNCHANGED <<datasets_reg, function, parts, instances>>
        /\ UNCHANGED <<stackVars, wrapperVars>>

\* the loop replaces its datasets between steps, or passes none
SetDatasets ==
    \E datasets \in {None} \cup { Some(d) : d \in DatasetMaps } :
        /\ datasets_reg' = datasets
        /\ bres' = [op |-> "set_datasets", status |-> "ok"]
        /\ builder_log' = <<>>
        /\ UNCHANGED <<models_reg, function, parts, instances>>
        /\ UNCHANGED <<stackVars, wrapperVars>>

MultiPrepare ==
    Finish("prepare", "multi", "", BuilderPrepare(NewId(function), models_reg, datasets_reg))

MultiUpdate ==
    /\ function # None
    /\ function[1].by = "multi"
    /\ Finish("update", "multi", "",
              BuilderUpdate(function[1], NewId(function), models_reg, datasets_reg))

UsingPrepare ==
    \E b \in SingleBuilders, tag \in Tags :
        Finish("prepare", b, tag,
               AnonPrepare(b, tag, models_reg, datasets_reg, NewId(function)))

UsingUpdate ==
    \E b \in SingleBuilders, tag \in Tags :
        /\ function # None
        /\ function[1].by = b
        /\ Finish("update", b, tag,
                  AnonUpdate(b, tag, function[1], models_reg, datasets_reg,
                             NewId(function)))

GreedyUsingPrepare ==
    \E b \in GreedyBuilders, tag \in Tags, pending \in PendingOptions :
        GreedyFinish("prepare", b, tag, pending, None,
                     GreedyAnonPrepare(b, tag, models_reg, datasets_reg, pending,
                                       NewId(function)))

GreedyUsingUpdate ==
    \E b \in GreedyBuilders, tag \in Tags, pending \in PendingOptions,
       new_optimization_step \in BOOLEAN :
        /\ function # None
        /\ function[1].by = b
        /\ GreedyFinish("update", b, tag, pending, Some(new_optimization_step),
                        GreedyAnonUpdate(b, tag, function[1], models_reg,
                                         datasets_reg, pending,
                                         new_optimization_step, NewId(function)))

BuilderNext ==
    \/ SetModels
    \/ SetDatasets
    \/ MultiPrepare
    \/ MultiUpdate
    \/ UsingPrepare
    \/ UsingUpdate
    \/ GreedyUsingPrepare
    \/ GreedyUsingUpdate

\* GreedyAcquisitionFunctionBuilder.prepare_acquisition_function, abstract: a
\* new function of the models, the datasets and the pending points it is given
GreedyBuilderPrepare(fresh, models, datasets, pending) ==
    Return(<<[builder |-> "greedymulti", method |-> "prepare", models |-> models,
              datasets |-> datasets, pending |-> pending]>>,
           [id |-> fresh, by |-> "greedymulti", models |-> models,
            datasets |-> datasets, pending |-> pending],
           None)

\* GreedyAcquisitionFunctionBuilder.update_acquisition_function
GreedyBuilderUpdateKeepsWithinStep(fn, fresh, models, datasets, pending, new_optimization_step) ==
    IF new_optimization_step
    THEN LET p == GreedyBuilderPrepare(fresh, models, datasets, pending)
         IN  Return(p.log, p.ret[1], Some(fn))
    ELSE LET g == [fn EXCEPT !.pending = pending]
         IN  Return(<<>>, g, Some(g))

GreedyBuilderUpdate(fn, fresh, models, datasets, pending, new_optimization_step) ==
    LET p == GreedyBuilderPrepare(fresh, models, datasets, pending)
    IN  Return(p.log, p.ret[1], Some(fn))

GreedyMultiPrepare ==
    \E pending \in PendingOptions :
        GreedyFinish("prepare", "greedymulti", "", pending, None,
                     GreedyBuilderPrepare(NewId(function), models_reg, datasets_reg,
                                          pending))

GreedyMultiUpdate ==
    \E pending \in PendingOptions, new_optimization_step \in BOOLEAN :
        /\ function # None
        /\ function[1].by = "greedymulti"
        /\ GreedyFinish("update", "greedymulti", "", pending,
                        Some(new_optimization_step),
                        GreedyBuilderUpdate(function[1], NewId(function), models_reg,
                                            datasets_reg, pending,
                                            new_optimization_step))

\* the greedy builders, with and without a tag adapter, in a loop that keeps
\* its models and replaces its datasets between steps
GreedyNext ==
    \/ SetDatasets
    \/ GreedyMultiPrepare
    \/ GreedyMultiUpdate
    \/ GreedyUsingPrepare
    \/ GreedyUsingUpdate

\* the tag that adapter k closed over when using(tag) made it
PartTagLateBound(k) == parts[Len(parts)].tag

PartTag(k) == parts[k].tag

\* a combination of the two adapters calls one of them; it keeps the function
\* each adapter returned and gives it back to that adapter to update
\* a builder with internal state finds the state its last call left (saw)
\* and leaves a note of the call it has just served
PartFinish(op, k, r) ==
    LET b == parts[k].builder
        stateful == b \in Instances /\ r.status = "ok"
    IN  /\ bres' = [op |-> op, part |-> k, builder |-> b,
                    tag |-> parts[k].tag, status |-> r.status, key |-> r.key,
                    saw |-> IF stateful THEN instances[b] ELSE None]
        /\ builder_log' = r.log
        /\ parts' = [parts EXCEPT
                        ![k].function = IF r.status = "ok" THEN r.ret ELSE @]
        /\ instances' =
              IF stateful
              THEN [instances EXCEPT
                      ![b] = Some([method |-> op, model |-> r.log[1].model,
                                   dataset |-> r.log[1].dataset])]
              ELSE instances
        /\ UNCHANGED <<models_reg, datasets_reg, function>>
        /\ UNCHANGED <<stackVars, wrapperVars>>

PartPrepare ==
    \E k \in DOMAIN parts :
        /\ parts[k].of \notin GreedyBuilders \cup {"greedy_memo"}
        /\ PartFinish("prepare", k,
                      AnonPrepare(parts[k].builder, PartTag(k), models_reg,
                                  datasets_reg, NewId(parts[k].function)))

PartUpdate ==
    \E k \in DOMAIN parts :
        /\ parts[k].of \notin GreedyBuilders \cup {"greedy_memo"}
        /\ parts[k].function # None
        /\ PartFinish("update", k,
                      AnonUpdate(parts[k].builder, PartTag(k), parts[k].function[1],
                                 models_reg, datasets_reg, NewId(parts[k].function)))

\* the same through the adapters of a greedy builder, with no pending
\* points or with one
GreedyPartPrepare ==
    \E k \in DOMAIN parts, pending \in {None, Some(1)} :
        /\ parts[k].of \in GreedyBuilders \cup {"greedy_memo"}
        /\ PartFinish("prepare", k,
                      GreedyAnonPrepare(parts[k].builder, PartTag(k), models_reg,
                                        datasets_reg, pending,
                                        NewId(parts[k].function)))

GreedyPartUpdate ==
    \E k \in DOMAIN parts, pending \in {None, Some(1)},
       new_optimization_step \in BOOLEAN :
        /\ parts[k].of \in GreedyBuilders \cup {"greedy_memo"}
        /\ parts[k].function # None
        /\ PartFinish("update", k,
                      GreedyAnonUpdate(parts[k].builder, PartTag(k),
                                       parts[k].function[1], models_reg,
                                       datasets_reg, pending,
                                       new_optimization_step,
                                       NewId(parts[k].function)))

\* two adapters made from one builder that has internal state
SharedNext ==
    \/ SetDatasets
    \/ PartPrepare
    \/ PartUpdate
    \/ GreedyPartPrepare
    \/ GreedyPartUpdate

ComposeNext == SetModels \/ SetDatasets \/ PartPrepare \/ PartUpdate

\* the builders are run next to one stack that no builder call touches
BuilderSpecInit ==
    /\ Init
    /\ event_sizes = <<1>>
    /\ stack_models[1].data = Dataset(MkTensor(1, 1, 0), MkTensor(1, 1, 0))

BuilderSpec == BuilderSpecInit /\ [][BuilderNext]_vars

GreedySpec == BuilderSpecInit /\ [][GreedyNext]_vars

ComposeSpec == BuilderSpecInit /\ [][ComposeNext]_vars

SharedSpecInit ==
    /\ ModelStackInit
    /\ event_sizes = <<1>>
    /\ stack_models[1].data = Dataset(MkTensor(1, 1, 0), MkTensor(1, 1, 0))
    /\ BuilderStateInit
    /\ NoWrapper
    /\ \E b \in StatefulBuilders, tag1 \in Tags, tag2 \in Tags :
          parts = <<Using(b, tag1), Using(b, tag2)>>

SharedSpec == SharedSpecInit /\ [][SharedNext]_vars

\* ------------------------------------------------------------ ModelStack claims
\* the output width of each constituent: the event size of its predictions
ConstituentEventSizes ==
    [i \in 1..Len(stack_models) |-> LastDim(stack_models[i].data.observations)]

\* the first column of chunk i when the chunks have the given sizes
Offset(sizes, i) == Sum(SubSeq(sizes, 1, i - 1))

\* C1: ModelStack.predict returns a mean and a variance whose last dimension
\* is the sum of the constituents' event sizes, and chunk i of each (the
\* contiguous columns of constituent i, constructor order) is exactly what
\* constituent i's own predict returns for the same points.
C1_PredictConcatenates ==
    outcome.op = "predict" =>
        LET E == ConstituentEventSizes
            mean == outcome.value.mean
            var == outcome.value.var
        IN  /\ Len(mean) = Len(outcome.points) /\ Len(var) = Len(outcome.points)
            /\ \A r \in 1..Len(mean) : Len(mean[r]) = Sum(E) /\ Len(var[r]) = Sum(E)
            /\ E = event_sizes => LastDim(mean) = Sum(event_sizes)
            /\ \A i \in 1..Len(stack_models) :
                 LET own == GPRPredict(stack_models[i], outcome.points)
                 IN  \A r \in 1..Len(mean) : \A c \in 1..E[i] :
                        /\ mean[r][Offset(E, i) + c] = own.mean[r][c]
                        /\ var[r][Offset(E, i) + c] = own.var[r][c]

C1_Witness ==
    /\ outcome.op = "predict"
    /\ ConstituentEventSizes = <<1, 2>>
    /\ event_sizes = <<1, 2>>
    /\ Len(outcome.value.mean[1]) = 3
    /\ outcome.value.mean[1][1] # outcome.value.mean[1][2]

\* C2: ModelStack.update of a dataset whose observation width is the sum of
\* the event sizes calls the constituents' update in constructor order, each
\* with the dataset's own query points and with the observation columns
\* [sum of the sizes before it, sum of the sizes up to it); when no
\* constituent raises, every constituent is called.
C2_UpdateRoutesColumns ==
    (outcome.op = "update" /\ LastDim(outcome.dataset.observations) = Sum(event_sizes)) =>
        LET D == outcome.dataset
        IN  /\ outcome.status = "ok" => Len(calls) = Len(stack_models)
            /\ \A i \in 1..Len(calls) :
                 /\ calls[i].idx = i
                 /\ calls[i].method = "update"
                 /\ calls[i].dataset.query_points = D.query_points
                 /\ Len(calls[i].dataset.observations) = Len(D.observations)
                 /\ \A r \in 1..Len(D.observations) :
                       /\ Len(calls[i].dataset.observations[r]) = event_sizes[i]
                       /\ \A c \in 1..event_sizes[i] :
                            calls[i].dataset.observations[r][c] =
                               D.observations[r][Offset(event_sizes, i) + c]
                 /\ (outcome.status = "ok" \/ i < outcome.at) =>
                       stack_models[i].data = calls[i].dataset

C2_Witness ==
    /\ outcome.op = "update"
    /\ outcome.status = "ok"
    /\ event_sizes = <<1, 2>>
    /\ stack_models[1].data.observations[1] = <<outcome.dataset.observations[1][1]>>
    /\ stack_models[2].data.observations[1] = Tail(outcome.dataset.observations[1])
    /\ stack_models[1].data.query_points = stack_models[2].data.query_points

\* C3: when the observation width of the dataset given to ModelStack.update or
\* ModelStack.optimize differs from the sum of the event sizes, the call fails
\* with the shape error of the split, no constituent has been called and every
\* constituent is as it was before the call.
C3_SplitMismatchTouchesNothing ==
    [][ (/\ outcome'.op \in {"update", "optimize"}
         /\ LastDim(outcome'.dataset.observations) # Sum(event_sizes))
        => (/\ outcome'.status = "error"
            /\ outcome'.error = "split"
            /\ calls' = <<>>
            /\ stack_models' = stack_models) ]_vars

C3_Witness ==
    /\ outcome.op \in {"update", "optimize"}
    /\ outcome.status = "error"
    /\ outcome.error = "split"
    /\ Len(stack_models) = 2
    /\ LastDim(outcome.dataset.observations) < Sum(event_sizes)
    /\ stack_models[1].params # 0

\* C4: whenever ModelStack.update fails, for a width that disagrees with the
\* stack or with any one constituent, no constituent has been mutated.
C4_UpdateFailureIsAtomic ==
    [][ (outcome'.op = "update" /\ outcome'.status = "error")
        => stack_models' = stack_models ]_vars

\* -------------------------------------------------------------- builder claims
\* the last operation was a call on a tag adapter
AdapterCalled(b) ==
    /\ b.op \in {"prepare", "update"}
    /\ b.builder \in SingleBuilders \cup GreedyBuilders

\* what the function does when it is evaluated: everything but its identity
Behaviour(f) == [by |-> f.by, model |-> f.model, dataset |-> f.dataset,
                 pending |-> f.pending]

\* C5: with the adapter's tag in the models mapping and in the datasets mapping,
\* b.using(tag).prepare_acquisition_function(models, datasets) makes the one
\* call b.prepare_acquisition_function(models[tag], datasets[tag]) and returns
\* what that returns, whatever the two mappings hold under other tags.
C5_UsingPrepareSelectsTag ==
    (/\ bres.op = "prepare"
     /\ bres.builder \in SingleBuilders
     /\ bres.tag \in DOMAIN models_reg
     /\ datasets_reg # None
     /\ bres.tag \in DOMAIN datasets_reg[1])
    => (/\ bres.status = "ok"
        /\ builder_log = <<Call(bres.builder, "prepare", None, models_reg[bres.tag],
                                Some(datasets_reg[1][bres.tag]), None, None)>>
        /\ function # None
        /\ Behaviour(function[1]) =
              [by |-> bres.builder, model |-> models_reg[bres.tag],
               dataset |-> Some(datasets_reg[1][bres.tag]), pending |-> None])

C5_Witness ==
    /\ bres.op = "prepare"
    /\ bres.builder = "pov"
    /\ bres.tag = "FAILURE"
    /\ bres.status = "ok"
    /\ DOMAIN models_reg = Tags
    /\ models_reg["OBJECTIVE"] # models_reg["FAILURE"]
    /\ datasets_reg # None
    /\ DOMAIN datasets_reg[1] = Tags
    /\ function[1].model = models_reg["FAILURE"]

\* C6: a prepare or update call on a tag adapter (either kind) whose models
\* mapping lacks the adapter's tag raises KeyError for that tag: the wrapped
\* builder is not called, nothing is returned and the loop keeps the function
\* it had.
C6_MissingModelTagRaises ==
    [][ (AdapterCalled(bres') /\ bres'.tag \notin DOMAIN models_reg')
        => (/\ bres'.status = "KeyError"
            /\ bres'.key = Some(bres'.tag)
            /\ builder_log' = <<>>
            /\ function' = function) ]_vars

C6_Witness ==
    /\ AdapterCalled(bres)
    /\ bres.op = "update"
    /\ bres.status = "KeyError"
    /\ DOMAIN models_reg = {"OBJECTIVE"}
    /\ bres.tag = "FAILURE"
    /\ function # None

\* C7: a call on a tag adapter whose models mapping has the tag passes
\* dataset=None when the datasets mapping is None, passes datasets[tag] when
\* the mapping has the tag, and raises KeyError for the tag, without calling
\* the wrapped builder, when the mapping is present (even empty) and lacks it.
C7_DatasetLookup ==
    (AdapterCalled(bres) /\ bres.tag \in DOMAIN models_reg) =>
        IF datasets_reg = None
        THEN /\ bres.status = "ok"
             /\ \A k \in 1..Len(builder_log) : builder_log[k].dataset = None
             /\ Len(builder_log) >= 1
        ELSE IF bres.tag \in DOMAIN datasets_reg[1]
        THEN /\ bres.status = "ok"
             /\ \A k \in 1..Len(builder_log) :
                   builder_log[k].dataset = Some(datasets_reg[1][bres.tag])
             /\ Len(builder_log) >= 1
        ELSE /\ bres.status = "KeyError"
             /\ bres.key = Some(bres.tag)
             /\ builder_log = <<>>

C7_Witness ==
    /\ AdapterCalled(bres)
    /\ bres.tag \in DOMAIN models_reg
    /\ datasets_reg = Some(<<>>)
    /\ bres.status = "KeyError"

\* C8: update_acquisition_function of a tag adapter looks the tag up as prepare
\* does and calls the wrapped builder's update_acquisition_function with the
\* caller's function object, models[tag] and the dataset argument; a wrapped
\* builder that overrides update is reached: no prepare call is made and the
\* object given is the object returned, updated.
C8_UsingUpdateForwardsToUpdate ==
    [][ (/\ bres'.op = "update"
         /\ bres'.builder \in SingleBuilders
         /\ bres'.status = "ok")
        => (/\ function # None
            /\ builder_log'[1] =
                  Call(bres'.builder, "update", Some(function[1].id),
                       models_reg'[bres'.tag],
                       DatasetArgument(datasets_reg', bres'.tag).value, None, None)
            /\ Overrides(bres'.builder) =>
                  /\ Len(builder_log') = 1
                  /\ function'[1].id = function[1].id
                  /\ bres'.arg = function'
                  /\ function'[1].model = models_reg'[bres'.tag]) ]_vars

C8_Witness ==
    /\ bres.op = "update"
    /\ bres.builder = "inplace"
    /\ bres.status = "ok"
    /\ Len(builder_log) = 1
    /\ builder_log[1].method = "update"
    /\ builder_log[1].function = Some(function[1].id)
    /\ bres.tag = "FAILURE"
    /\ models_reg = [OBJECTIVE |-> "gpr", FAILURE |-> "vgp"]

\* C9: update_acquisition_function of a builder that does not override it is
\* a rebuild: it calls prepare_acquisition_function with the same models and
\* datasets (model and dataset for a single-model builder) and returns the
\* new function that call returns; the function it was given is not passed
\* on and is unchanged.
C9_DefaultUpdateRebuilds ==
    [][ (bres'.op = "update" /\ bres'.status = "ok" /\ function # None)
        => (/\ bres'.builder = "multi" =>
                  /\ builder_log' = <<[builder |-> "multi", method |-> "prepare",
                                       models |-> models_reg',
                                       datasets |-> datasets_reg']>>
                  /\ function'[1].models = models_reg'
                  /\ function'[1].datasets = datasets_reg'
                  /\ function'[1].id # function[1].id
                  /\ bres'.arg = function
            /\ (bres'.builder \in SingleBuilders /\ ~Overrides(bres'.builder)) =>
                  /\ Len(builder_log') = 2
                  /\ builder_log'[2] =
                        Call(bres'.builder, "prepare", None, models_reg'[bres'.tag],
                             DatasetArgument(datasets_reg', bres'.tag).value,
                             None, None)
                  /\ Behaviour(function'[1]) =
                        [by |-> bres'.builder, model |-> builder_log'[1].model,
                         dataset |-> builder_log'[1].dataset, pending |-> None]
                  /\ function'[1].id # function[1].id
                  /\ bres'.arg = function) ]_vars

C9_Witness ==
    /\ bres.op = "update"
    /\ bres.builder = "multi"
    /\ bres.status = "ok"
    /\ bres.arg # None
    /\ bres.arg[1].models # models_reg
    /\ bres.arg[1].datasets # datasets_reg
    /\ datasets_reg # None

\* C10: after a prepare and any number of updates, with the models and the
\* datasets replaced in between, the function the last call returned is the
\* one a fresh prepare on that call's models and datasets builds: nothing of
\* an earlier model or dataset is left in it.
C10_FunctionReflectsLatest ==
    (bres.op \in {"prepare", "update"} /\ bres.status = "ok") =>
        /\ function # None
        /\ bres.builder = "multi" =>
              /\ function[1].models = models_reg
              /\ function[1].datasets = datasets_reg
        /\ bres.builder \in SingleBuilders =>
              Behaviour(function[1]) =
                 [by |-> bres.builder, model |-> models_reg[bres.tag],
                  dataset |-> DatasetArgument(datasets_reg, bres.tag).value,
                  pending |-> None]

C10_Witness ==
    /\ bres.op = "update"
    /\ bres.status = "ok"
    /\ bres.builder = "pov"
    /\ bres.arg # None
    /\ bres.arg[1].model # function[1].model
    /\ bres.arg[1].dataset # function[1].dataset

\* C11: the tag adapter of a single-model greedy builder hands the caller's
\* pending_points to the wrapped builder as it got them, in prepare and in
\* update (None stays None, the tag plays no part), and in update it hands
\* on the caller's new_optimization_step too.
C11_GreedyAdapterThreadsPending ==
    (/\ bres.op \in {"prepare", "update"}
     /\ bres.builder \in GreedyBuilders
     /\ bres.status = "ok")
    => (/\ Len(builder_log) >= 1
        /\ builder_log[1].builder = bres.builder
        /\ builder_log[1].method = bres.op
        /\ builder_log[1].pending = bres.pending
        /\ bres.op = "update" =>
              builder_log[1].new_optimization_step = bres.new_optimization_step)

C11_Witness ==
    /\ bres.op = "update"
    /\ bres.builder = "greedy"
    /\ bres.status = "ok"
    /\ bres.tag = "FAILURE"
    /\ bres.pending = Some(MaxPending)
    /\ bres.new_optimization_step = Some(FALSE)
    /\ builder_log[1].pending = Some(MaxPending)
    /\ builder_log[1].new_optimization_step = Some(FALSE)

\* the number of pending points
PendingLen(pending) == IF pending = None THEN 0 ELSE pending[1]

\* C12: an update_acquisition_function call on a greedy builder with
\* new_optimization_step=False and one more pending point than the call
\* before it does not rebuild the function against the models and datasets:
\* it makes no prepare call and returns the function object it was given.
C12_ContinuationDoesNotRebuild ==
    [][ (/\ bres'.op = "update"
         /\ bres'.builder \in GreedyBuilders \cup {"greedymulti"}
         /\ bres'.status = "ok"
         /\ bres'.new_optimization_step = Some(FALSE)
         /\ function # None
         /\ PendingLen(bres'.pending) = PendingLen(function[1].pending) + 1)
        => (/\ \A k \in 1..Len(builder_log') : builder_log'[k].method # "prepare"
            /\ function'[1].id = function[1].id) ]_vars

\* C13: update_acquisition_function of a greedy builder that keeps the
\* default takes no account of new_optimization_step: with the flag True and
\* with the flag False alike it makes the one call
\* prepare_acquisition_function(models, datasets, pending_points) (model and
\* dataset for a single-model builder) and returns the new function built
\* from exactly those arguments.
C13_DefaultGreedyUpdateIgnoresStep ==
    [][ (/\ bres'.op = "update"
         /\ bres'.status = "ok"
         /\ bres'.builder \in GreedyBuilders \cup {"greedymulti"}
         /\ function # None)
        => (/\ bres'.builder = "greedymulti" =>
                  /\ builder_log' = <<[builder |-> "greedymulti", method |-> "prepare",
                                       models |-> models_reg',
                                       datasets |-> datasets_reg',
                                       pending |-> bres'.pending]>>
                  /\ function' = Some([id |-> NewId(function), by |-> "greedymulti",
                                       models |-> models_reg',
                                       datasets |-> datasets_reg',
                                       pending |-> bres'.pending])
            /\ bres'.builder \in GreedyBuilders =>
                  /\ {k \in 1..Len(builder_log') : builder_log'[k].method = "prepare"}
                        = {2}
                  /\ Len(builder_log') = 2
                  /\ builder_log'[2] =
                        Call(bres'.builder, "prepare", None, models_reg'[bres'.tag],
                             DatasetArgument(datasets_reg', bres'.tag).value,
                             bres'.pending, None)
                  /\ function' = Some([id |-> NewId(function), by |-> bres'.builder,
                                       model |-> models_reg'[bres'.tag],
                                       dataset |-> DatasetArgument(datasets_reg',
                                                                   bres'.tag).value,
                                       pending |-> bres'.pending])
            /\ bres'.arg = function) ]_vars

C13_Witness ==
    /\ bres.op = "update"
    /\ bres.builder = "greedymulti"
    /\ bres.status = "ok"
    /\ bres.new_optimization_step = Some(FALSE)
    /\ bres.pending = Some(MaxPending)
    /\ bres.arg # None
    /\ bres.arg[1].pending = None
    /\ function[1].pending = Some(MaxPending)
    /\ datasets_reg # None
    /\ function[1].datasets = datasets_reg
    /\ bres.arg[1].datasets = datasets_reg

\* C14: a ModelStack of exactly one constituent is transparent: predict,
\* predict_joint and sample return exactly what the constituent returns for
\* the same arguments, and update and optimize, when the one event size is
\* the observation width, call the constituent once with the whole dataset.
C14_SingleConstituentIsTransparent ==
    Len(stack_models) = 1 =>
        /\ outcome.op = "predict" =>
              outcome.value = GPRPredict(stack_models[1], outcome.points)
        /\ outcome.op = "predict_joint" =>
              outcome.value = GPRPredictJoint(stack_models[1], outcome.points)
        /\ outcome.op = "sample" =>
              /\ Len(calls) = 1
              /\ calls[1].points = outcome.points
              /\ calls[1].num_samples = outcome.num_samples
              /\ outcome.value = calls[1].value
        /\ (/\ outcome.op \in {"update", "optimize"}
            /\ event_sizes[1] = LastDim(outcome.dataset.observations)) =>
              calls = <<[idx |-> 1, method |-> outcome.op, dataset |-> outcome.dataset]>>

C14_Witness ==
    /\ Len(stack_models) = 1
    /\ outcome.op = "sample"
    /\ outcome.value = calls[1].value
    /\ outcome.value[1] # GPRPredict(stack_models[1], outcome.points).mean
    /\ stack_models[1].params # 0
    /\ LastDim(stack_models[1].data.observations) = MaxEvent

\* C17: ModelStack.predict, predict_joint and sample leave the constituents
\* and the event sizes as they are and call, on each constituent in order,
\* only the operation of the same name; a step that changes a constituent is
\* a step of ModelStack.update or ModelStack.optimize.
C17_ReadsLeaveStateAlone ==
    [][ /\ outcome'.op \in {"predict", "predict_joint", "sample"} =>
              /\ stack_models' = stack_models
              /\ event_sizes' = event_sizes
              /\ Len(calls') = Len(stack_models)
              /\ \A k \in 1..Len(calls') :
                    calls'[k].idx = k /\ calls'[k].method = outcome'.op
        /\ stack_models' # stack_models => outcome'.op \in {"update", "optimize"}
        /\ event_sizes' = event_sizes ]_vars

C17_Witness ==
    /\ outcome.op = "predict_joint"
    /\ Len(stack_models) = 2
    /\ Len(calls) = 2
    /\ calls[2].method = "predict_joint"
    /\ stack_models[2].params # 0

\* C20: ModelStack.optimize of a dataset whose observation width is the sum
\* of the event sizes calls every constituent's optimize, in constructor
\* order, with the dataset's own query points and with the observation
\* columns [sum of the sizes before it, sum of the sizes up to it): the
\* slices, put side by side in order, are the observations, each column once.
C20_OptimizeRoutesColumns ==
    (outcome.op = "optimize" /\ LastDim(outcome.dataset.observations) = Sum(event_sizes)) =>
        LET D == outcome.dataset
        IN  /\ outcome.status = "ok"
            /\ Len(calls) = Len(stack_models)
            /\ \A i \in 1..Len(calls) :
                 /\ calls[i].idx = i
                 /\ calls[i].method = "optimize"
                 /\ calls[i].dataset.query_points = D.query_points
                 /\ Len(calls[i].dataset.observations) = Len(D.observations)
                 /\ \A r \in 1..Len(D.observations) :
                       /\ Len(calls[i].dataset.observations[r]) = event_sizes[i]
                       /\ \A c \in 1..event_sizes[i] :
                            calls[i].dataset.observations[r][c] =
                               D.observations[r][Offset(event_sizes, i) + c]
            /\ ConcatLast([i \in 1..Len(calls) |-> calls[i].dataset.observations])
                  = D.observations

C20_Witness ==
    /\ outcome.op = "optimize"
    /\ outcome.status = "ok"
    /\ event_sizes = <<1, 2>>
    /\ Len(calls) = 2
    /\ calls[1].dataset.observations[1] = <<outcome.dataset.observations[1][1]>>
    /\ calls[2].dataset.observations[1] = Tail(outcome.dataset.observations[1])
    /\ calls[1].dataset.query_points = calls[2].dataset.query_points

\* C18: the models and datasets mappings are read-only for the builders: a
\* prepare or update call on a default builder or on a tag adapter of either
\* kind, whether it returns or raises KeyError for a missing tag, leaves both
\* mappings exactly as they were.
C18_RegistriesAreReadOnly ==
    [][ bres'.op \in {"prepare", "update"}
        => (/\ models_reg' = models_reg
            /\ datasets_reg' = datasets_reg) ]_vars

C18_Witness ==
    /\ bres.op = "update"
    /\ bres.builder = "pov"
    /\ bres.status = "KeyError"
    /\ bres.tag = "FAILURE"
    /\ DOMAIN models_reg = Tags
    /\ datasets_reg # None
    /\ DOMAIN datasets_reg[1] = {"OBJECTIVE"}

\* C19: two tag adapters over two single-model builders, used side by side
\* with their prepare and update calls interleaved in any order: every call
\* on one adapter reaches only that adapter's own builder, with the model and
\* the dataset of that adapter's own tag, and leaves what the other builder
\* holds exactly as it was.
C19_AdaptersKeepTheirOwnState ==
    [][ \A k \in DOMAIN parts :
          (bres'.op \in {"prepare", "update"} /\ bres'.part = k) =>
             /\ \A j \in DOMAIN parts \ {k} : parts'[j] = parts[j]
             /\ parts'[k].builder = parts[k].builder
             /\ parts'[k].tag = parts[k].tag
             /\ \A e \in 1..Len(builder_log') :
                   /\ builder_log'[e].builder = parts[k].builder
                   /\ parts[k].tag \in DOMAIN models_reg'
                   /\ builder_log'[e].model = models_reg'[parts[k].tag]
                   /\ ~DatasetArgument(datasets_reg', parts[k].tag).raises
                   /\ builder_log'[e].dataset =
                         DatasetArgument(datasets_reg', parts[k].tag).value
             /\ bres'.status = "ok" =>
                   /\ Len(builder_log') >= 1
                   /\ parts'[k].function # None
                   /\ parts'[k].function[1].by = parts[k].builder
                   /\ parts[k].tag \in DOMAIN models_reg'
                   /\ parts'[k].function[1].model = models_reg'[parts[k].tag]
             /\ bres'.status # "ok" => parts' = parts ]_vars

C19_Witness ==
    /\ bres.op = "update"
    /\ bres.part = 1
    /\ bres.status = "ok"
    /\ DOMAIN models_reg = Tags
    /\ models_reg["OBJECTIVE"] # models_reg["FAILURE"]
    /\ parts[1].function # None
    /\ parts[2].function # None
    /\ parts[1].function[1].model = models_reg["OBJECTIVE"]
    /\ parts[2].function[1].model # models_reg["FAILURE"]

\* ------------------------------------------------------------- wrapper claims
\* C15: update of any of the four trainable wrappers with a dataset whose
\* query points or whose observations have another trailing dimension than
\* the data the wrapper holds raises ValueError; the message names the shape
\* of the new tensor and the shape of the existing one, and the wrapper (its
\* data, num_data, variational parameters and all else) is as it was.
C15_IncompatibleUpdateRaises ==
    [][ (/\ wres'.op = "update"
         /\ wrapper # None
         /\ DataIsIncompatible(wres'.dataset, wrapper[1].data))
        => (/\ wres'.status = "ValueError"
            /\ wres'.message # None
            /\ \E t \in {"query_points", "observations"} :
                  /\ LastDim(wres'.dataset[t]) # LastDim(wrapper[1].data[t])
                  /\ wres'.message[1].new = Shape(wres'.dataset[t])
                  /\ wres'.message[1].existing = Shape(wrapper[1].data[t])
            /\ wrapper' = wrapper) ]_vars

C15_Witness ==
    /\ wres.op = "update"
    /\ wres.status = "ValueError"
    /\ wrapper[1].kind = "gpflux"
    /\ wres.message # None
    /\ wres.message[1].of = "observations"
    /\ wres.message[1].new # wres.message[1].existing
    /\ wrapper[1].q_mu.set_by = "update"
    /\ wrapper[1].data # wres.dataset

\* C16: after an update of the deep-GP wrapper that returned, with a dataset
\* of N points, num_data of the wrapped model is N and num_data of the
\* model's layer is N, whatever they were before.
C16_UpdateSetsNumDataEverywhere ==
    (/\ wres.op = "update"
     /\ wres.status = "ok"
     /\ wrapper[1].kind = "gpflux")
    => (/\ wrapper[1].num_data = Len(wres.dataset.query_points)
        /\ wrapper[1].layer_num_data = Len(wres.dataset.query_points))

\* ------------------------------------------------- ModelStack claims, continued
\* C21 as stated: the covariance ModelStack.predict_joint returns has a new
\* leading axis with one entry per constituent, entry i being constituent
\* i's covariance.
C21_CovarianceStackedPerConstituent ==
    outcome.op = "predict_joint" =>
        Len(outcome.value.cov) = Len(stack_models)

\* C21, amended: ModelStack.predict_joint joins the constituents' covariances
\* along their existing axis -3, adding no axis: the result is the B x B
\* blocks of constituent 1, then those of constituent 2, and so on, one block
\* per output column, each exactly the block the constituent returned; no
\* block relates outputs of two constituents.
C21_CovarianceBlocksConcatenated ==
    outcome.op = "predict_joint" =>
        LET E == ConstituentEventSizes
            cov == outcome.value.cov
            B == Len(outcome.points)
        IN  /\ Len(cov) = Sum(E)
            /\ \A i \in 1..Len(stack_models) :
                 LET own == GPRPredictJoint(stack_models[i], outcome.points)
                 IN  \A e \in 1..E[i] : cov[Offset(E, i) + e] = own.cov[e]
            /\ \A k \in 1..Len(cov) :
                 Len(cov[k]) = B /\ \A r \in 1..B : Len(cov[k][r]) = B

C21_Witness ==
    /\ outcome.op = "predict_joint"
    /\ ConstituentEventSizes = <<2, 1>>
    /\ Len(outcome.value.cov) = 3
    /\ outcome.value.cov[1] # outcome.value.cov[2]
    /\ outcome.value.cov[3] =
          GPRPredictJoint(stack_models[2], outcome.points).cov[1]

\* C22: ModelStack.sample calls sample once on every constituent, each with
\* the whole batch of query points and the num_samples it was given, and
\* joins what they return along the last axis in constructor order: the
\* result has num_samples samples, and every sampled point is as wide as the
\* constituents' outputs together.
C22_SampleConcatenates ==
    outcome.op = "sample" =>
        LET n == Len(stack_models)
            E == ConstituentEventSizes
            value == outcome.value
        IN  /\ Len(calls) = n
            /\ \A i \in 1..n :
                 /\ calls[i].idx = i
                 /\ calls[i].method = "sample"
                 /\ calls[i].points = outcome.points
                 /\ calls[i].num_samples = outcome.num_samples
            /\ Len(value) = outcome.num_samples
            /\ \A s \in 1..Len(value) :
                 /\ Len(value[s]) = Len(outcome.points)
                 /\ \A r \in 1..Len(value[s]) :
                      /\ Len(value[s][r]) = Sum(E)
                      /\ \A i \in 1..n :
                           SubSeq(value[s][r], Offset(E, i) + 1,
                                  Offset(E, i) + E[i]) = calls[i].value[s][r]

C22_Witness ==
    /\ outcome.op = "sample"
    /\ Len(stack_models) = 2
    /\ ConstituentEventSizes = <<1, 2>>
    /\ outcome.num_samples = MaxSamples
    /\ Len(outcome.value[1][1]) = 3
    /\ calls[1].value[1][1] # SubSeq(calls[2].value[1][1], 1, 1)

\* Shape of a joint prediction: mean [B, E] and covariance [E, B, B].
HasJointShape(pred, B, E) ==
    /\ Len(pred.mean) = B
    /\ \A r \in 1..B : Len(pred.mean[r]) = E
    /\ Len(pred.cov) = E
    /\ \A e \in 1..E :
         Len(pred.cov[e]) = B /\ \A r \in 1..B : Len(pred.cov[e][r]) = B

C27_DeclaredSizesOnlySplit ==
    LET E == ConstituentEventSizes
        value == outcome.value
    IN  /\ outcome.op \in {"predict", "predict_joint", "sample"} =>
             outcome.status = "ok"
        /\ outcome.op = "predict" =>
             LastDim(value.mean) = Sum(E) /\ LastDim(value.var) = Sum(E)
        /\ outcome.op = "predict_joint" =>
             LastDim(value.mean) = Sum(E) /\ Len(value.cov) = Sum(E)
        /\ outcome.op = "sample" =>
             \A s \in 1..Len(value) : LastDim(value[s]) = Sum(E)
        /\ outcome.op \in {"update", "optimize"} =>
             \A i \in 1..Len(calls) :
                 LastDim(calls[i].dataset.observations) = event_sizes[i]

C27_Witness ==
    /\ outcome.op = "predict"
    /\ outcome.status = "ok"
    /\ event_sizes = <<1, 1>>
    /\ ConstituentEventSizes = <<1, 2>>
    /\ LastDim(outcome.value.mean) = 3

\* ------------------------------------------- trainable wrappers, construction
\* C23: constructing a VariationalGaussianProcess around a model whose
\* q_sqrt is not of rank 3 raises the rank assertion's error with nothing yet
\* assigned on the wrapper (neither optimizer nor model) and gives the caller
\* no wrapper; with a q_sqrt of rank 3 the constructor returns a wrapper of
\* that model, optimizer and model assigned.
C23_RankCheckedBeforeStoring ==
    (wres.op = "construct" /\ wres.kind = "vgp") =>
        IF Len(wres.args.q_sqrt.shape) # 3
        THEN /\ wres.status = "assert_rank"
             /\ wres.assigned = <<>>
             /\ wres.self = None
        ELSE /\ wres.status = "ok"
             /\ wres.assigned = <<"_optimizer", "_model">>
             /\ wres.self # None
             /\ wrapper = wres.self
             /\ wrapper[1].kind = "vgp"
             /\ wrapper[1].q_sqrt = wres.args.q_sqrt

C23_Witness ==
    /\ wres.op = "construct"
    /\ wres.kind = "vgp"
    /\ Len(wres.args.q_sqrt.shape) = 2
    /\ wres.status = "assert_rank"
    /\ wres.assigned = <<>>

\* C25: constructing a GPFluxModel around a deep GP with more than one layer
\* raises NotImplementedError("GPFluxModels are restricted to single-layer
\* models.") and gives the caller no wrapper; with one layer the constructor
\* returns a wrapper of that model whose inducing point selector is the one
\* given, KMeans when None was given, and whose limit of inducing points is
\* the one given, 100 when None was given.
C25_SingleLayerOnly ==
    (wres.op = "construct" /\ wres.kind = "gpflux") =>
        LET args == wres.args
        IN  IF args.f_layers > 1
            THEN /\ wres.status = "NotImplementedError"
                 /\ wres.message =
                      Some("GPFluxModels are restricted to single-layer models.")
                 /\ wres.self = None
            ELSE /\ wres.status = "ok"
                 /\ wres.self # None
                 /\ wrapper = wres.self
                 /\ wrapper[1].kind = "gpflux"
                 /\ wrapper[1].f_layers = 1
                 /\ wrapper[1].inducing_point_selector =
                      (IF args.inducing_point_selector = None THEN "KMeans"
                       ELSE args.inducing_point_selector[1])
                 /\ wrapper[1].max_num_inducing_points =
                      (IF args.max_num_inducing_points = None THEN 100
                       ELSE args.max_num_inducing_points[1])

C25_Witness ==
    /\ wres.op = "construct"
    /\ wres.kind = "gpflux"
    /\ wres.args.f_layers = 2
    /\ wres.status = "NotImplementedError"
    /\ wres.self = None

\* a single-layer deep GP wrapped with both defaults taken
C25_DefaultsWitness ==
    /\ wres.op = "construct"
    /\ wres.kind = "gpflux"
    /\ wres.status = "ok"
    /\ wres.args.inducing_point_selector = None
    /\ wres.args.max_num_inducing_points = None
    /\ wrapper[1].inducing_point_selector = "KMeans"
    /\ wrapper[1].max_num_inducing_points = 100

\* ------------------------------------------------ trainable wrappers, updates
\* C28: an update of a GaussianProcessRegression that returns leaves the
\* model's data equal to exactly the query points and observations of the
\* dataset it was given, and one that raises leaves the data as it was, so
\* the data is always that of the last update that succeeded; an update of a
\* SparseVariational does the same to its stored dataset, and sets the
\* model's num_data to the number of query points of that dataset.
C28_DataIsLastSuccessfulDataset ==
    [][(wres'.op = "update" /\ wrapper[1].kind \in {"gpr", "svgp"}) =>
         IF wres'.status = "ok"
         THEN /\ wrapper'[1].data = wres'.dataset
              /\ wrapper[1].kind = "svgp" =>
                   wrapper'[1].num_data = Len(wres'.dataset.query_points)
         ELSE /\ wrapper'[1].data = wrapper[1].data
              /\ wrapper'[1].num_data = wrapper[1].num_data]_vars

\* a second successful update at the least: the data replaced is itself one
\* that an update wrote
C28_Witness ==
    /\ wres.op = "update"
    /\ wres.status = "ok"
    /\ wrapper[1].kind = "gpr"
    /\ wrapper[1].data = wres.dataset
    /\ wrapper[1].data.observations = MkTensor(1, 1, 2)

\* a SparseVariational whose num_data was wrong before its update
C28_NumDataWitness ==
    /\ wres.op = "update"
    /\ wres.status = "ok"
    /\ wrapper[1].kind = "svgp"
    /\ wrapper[1].data = wres.dataset
    /\ wrapper[1].num_data = Len(wres.dataset.query_points)
    /\ wrapper[1].layer_num_data # wrapper[1].num_data

\* C30: no update of a GaussianProcessRegression ends in a ValueError without
\* a message: whenever the last dimension of the new query points or of the
\* new observations differs from the model's, the error raised is the one of
\* _assert_data_is_compatible, which carries the new and the existing shape,
\* and the two bare raises that follow are never reached.
C30_BareRaisesUnreachable ==
    (wres.op = "update" /\ wrapper[1].kind = "gpr") =>
        /\ wres.status = "ValueError" =>
             /\ wres.message # None
             /\ wres.message[1].new # wres.message[1].existing
        /\ (\/ LastDim(wres.dataset.query_points) #
                 LastDim(wrapper[1].data.query_points)
            \/ LastDim(wres.dataset.observations) #
                 LastDim(wrapper[1].data.observations)) =>
             wres.status = "ValueError" /\ wres.message # None

C30_Witness ==
    /\ wres.op = "update"
    /\ wrapper[1].kind = "gpr"
    /\ wres.status = "ValueError"
    /\ wres.message # None
    /\ wres.message[1].of = "observations"
    /\ LastDim(wres.dataset.query_points) = LastDim(wrapper[1].data.query_points)
    /\ LastDim(wres.dataset.observations) # LastDim(wrapper[1].data.observations)

\* ------------------------------------------------------- tag adapters, sharing
\* C29: using(tag) does not copy the builder. Adapters made from one builder,
\* whatever their tags, forward to that very object: a call made through one
\* of them finds the internal state that the last call through any of them
\* left in the builder, and the state it leaves is the state every one of
\* them will find.
C29_AdaptersShareTheirBuilder ==
    [][(bres'.op \in {"prepare", "update"} /\ bres'.status = "ok") =>
         LET k == bres'.part
         IN  \A j \in DOMAIN parts :
                 parts[j].of = parts[k].of =>
                     /\ parts[j].builder = parts[k].of
                     /\ bres'.saw = instances[parts[j].builder]
                     /\ instances'[parts[j].builder] =
                          Some([method |-> bres'.op,
                                model |-> builder_log'[1].model,
                                dataset |-> builder_log'[1].dataset])]_vars

C29_Witness ==
    /\ bres.op = "prepare"
    /\ bres.status = "ok"
    /\ bres.part = 2
    /\ parts[1].of = parts[2].of
    /\ parts[1].tag # parts[2].tag
    /\ parts[1].function # None
    /\ bres.saw # None
    /\ bres.saw[1].method = "update"
    /\ bres.saw[1].dataset # builder_log[1].dataset
    /\ instances[parts[1].builder] =
          Some([method |-> "prepare", model |-> builder_log[1].model,
                dataset |-> builder_log[1].dataset])

====
